---- MODULE Spec2Model ----
(***************************************************************************)
(* Model of the Unix crash log handler of OpenTTD                          *)
(* (src/os/unix/crashlog_unix.cpp): the signal disposition table, the      *)
(* crash handler HandleCrash run by each faulting thread, the report       *)
(* sections of CrashLogUnix and the optional minidump writer.              *)
(***************************************************************************)
EXTENDS Integers, Sequences, FiniteSets

(* ------------------------------------------------------------------ *)
(* Bounds of the model                                                  *)
(* ------------------------------------------------------------------ *)
\* Largest small call-stack depth tried (depths around the capture limit
\* are tried as well, see Depths).
MaxDepth == 1
\* How often InitialiseCrashLog may be called.
MaxInstalls == 2
\* How often one thread may enter HandleCrash before the model stops counting.
MaxEntries == 2

(* ------------------------------------------------------------------ *)
(* Program constants                                                    *)
(* ------------------------------------------------------------------ *)
\* static const int _signals_to_handle[]
_signals_to_handle == <<"SIGSEGV", "SIGABRT", "SIGFPE", "SIGBUS", "SIGILL">>
\* void *trace[64]; lengthof(trace)
TraceLen == 64

Handled == {_signals_to_handle[k] : k \in 1..Len(_signals_to_handle)}
\* Signals the crash handler has nothing to do with.
OtherSignals == {"SIGTERM"}
AllSignals == Handled \cup OtherSignals
Threads == {"main", "worker"}
Depths == (0..MaxDepth) \cup ((TraceLen - 1)..(TraceLen + MaxDepth))
Messages == {"", "NewGRF load failure"}

VARIABLES
  disp,        \* the OS signal disposition table
  sigwrites,   \* per handled signal: number of signal() calls by Install / by HandleCrash
  installs,    \* number of InitialiseCrashLog calls so far
  proc,        \* "running" or "terminated"
  termBy,      \* how the process ended: "none", "abort" or <<"default", signal>>
  glibc,       \* build: __GLIBC__ defined
  breakpad,    \* build: WITH_UNOFFICIAL_BREAKPAD defined
  emergency,   \* what _gamelog.TestEmergency() answers
  missingGRF,  \* what SaveloadCrashWithMissingNewGRFs() answers
  pc,          \* per thread: position in HandleCrash ("Armed" outside of it)
  ri,          \* per thread: loop index of the reset loop
  signum,      \* per thread: argument of HandleCrash
  entries,     \* per thread: number of times HandleCrash was entered
  log,         \* per thread: the CrashLogUnix object (signum, crashdump_filename) or NoLog
  buf,         \* per thread: report buffer (sequence of lines)
  files,       \* per thread: artifacts on disk written by that thread's crash
  dret,        \* per thread: <<status>> returned by WriteCrashDump (<<>> before the call)
  hist,        \* per thread: steps HandleCrash has executed, in order
  faulty       \* the threads whose code can raise a fatal signal

vars == <<disp, sigwrites, installs, proc, termBy, glibc, breakpad, emergency,
          missingGRF, pc, ri, signum, entries, log, buf, files, dret, hist, faulty>>

procVars == <<proc, termBy>>
buildVars == <<glibc, breakpad, emergency, missingGRF, faulty>>
reportVars == <<log, buf, files, dret>>

NoLog == [signum |-> "none", crashdump_filename |-> ""]

Min(a, b) == IF a < b THEN a ELSE b

\* The state after program start, before CrashLog::InitialiseCrashLog.
Start ==
  /\ \E o \in {"SIG_DFL", "SIG_IGN"} :
       disp = [s \in AllSignals |-> IF s \in Handled THEN "SIG_DFL" ELSE o]
  /\ sigwrites = [s \in Handled |-> [install |-> 0, crash |-> 0]]
  /\ installs = 0
  /\ proc = "running"
  /\ termBy = [by |-> "none", sig |-> "none"]
  /\ glibc \in BOOLEAN
  /\ breakpad \in BOOLEAN
  /\ emergency \in BOOLEAN
  /\ missingGRF \in BOOLEAN
  /\ pc = [t \in Threads |-> "Armed"]
  /\ ri = [t \in Threads |-> 1]
  /\ signum = [t \in Threads |-> "none"]
  /\ entries = [t \in Threads |-> 0]
  /\ log = [t \in Threads |-> NoLog]
  /\ buf = [t \in Threads |-> <<>>]
  /\ files = [t \in Threads |-> {}]
  /\ dret = [t \in Threads |-> <<>>]
  /\ hist = [t \in Threads |-> <<>>]

\* A program whose game code runs on the main thread only.
Init == Start /\ faulty = {"main"}

(* ------------------------------------------------------------------ *)
(* Signal delivery                                                      *)
(* ------------------------------------------------------------------ *)
\* Bug variant: the loop registers the handler again instead of resetting.
ResetDispositionHandler == "HandleCrash"

\* signal(*i, SIG_DFL) in HandleCrash: the disposition written by the reset loop.
ResetDisposition == "SIG_DFL"

\* The element of _signals_to_handle the loop pointer i designates.
SignalAt(i) == _signals_to_handle[i]

\* The handler registered by signal(*i, HandleCrash) runs on the thread the
\* signal is delivered to: HandleCrash(signum) starts at its reset loop.
EnterHandleCrash(t, s) ==
  /\ entries[t] < MaxEntries
  /\ pc' = [pc EXCEPT ![t] = "Reset"]
  /\ ri' = [ri EXCEPT ![t] = 1]
  /\ signum' = [signum EXCEPT ![t] = s]
  /\ entries' = [entries EXCEPT ![t] = @ + 1]
  /\ hist' = [hist EXCEPT ![t] = Append(@, <<"HandleCrash", s>>)]
  /\ UNCHANGED <<disp, sigwrites, installs, procVars, buildVars, reportVars>>

\* SIG_DFL of a fatal signal: the OS ends the whole process.
DefaultAction(s, how) ==
  /\ proc' = "terminated"
  /\ termBy' = [by |-> how, sig |-> s]
  /\ UNCHANGED <<disp, sigwrites, installs, buildVars, pc, ri, signum, entries,
                 reportVars, hist>>

\* Signal s raised on thread t; how is "fault" or "abort".
Raise(t, s, how) ==
  IF disp[s] = "HandleCrash" THEN EnterHandleCrash(t, s) ELSE DefaultAction(s, how)

(* ------------------------------------------------------------------ *)
(* CrashLog::InitialiseCrashLog                                         *)
(* ------------------------------------------------------------------ *)
\* Bug variant: the registration loop stops one element early.
InitialiseCrashLogOneShort ==
  /\ proc = "running"
  /\ installs < MaxInstalls
  /\ \A t \in Threads : pc[t] = "Armed"
  /\ disp' = [s \in AllSignals |->
               IF \E k \in 1..(Len(_signals_to_handle) - 1) : _signals_to_handle[k] = s
               THEN "HandleCrash" ELSE disp[s]]
  /\ sigwrites' = [s \in Handled |-> [sigwrites[s] EXCEPT !.install = @ + 1]]
  /\ installs' = installs + 1
  /\ UNCHANGED <<procVars, buildVars, pc, ri, signum, entries, reportVars, hist>>

\* for (i = _signals_to_handle; i != endof(...); i++) signal(*i, HandleCrash);
InitialiseCrashLog ==
  /\ proc = "running"
  /\ installs < MaxInstalls
  /\ \A t \in Threads : pc[t] = "Armed"
  /\ disp' = [s \in AllSignals |-> IF s \in Handled THEN "HandleCrash" ELSE disp[s]]
  /\ sigwrites' = [s \in Handled |-> [sigwrites[s] EXCEPT !.install = @ + 1]]
  /\ installs' = installs + 1
  /\ UNCHANGED <<procVars, buildVars, pc, ri, signum, entries, reportVars, hist>>

\* A thread running ordinary game code faults with one of the fatal signals.
Fault(t) ==
  /\ proc = "running"
  /\ pc[t] = "Armed"
  /\ t \in faulty
  /\ \E s \in Handled : Raise(t, s, "fault")

(* ------------------------------------------------------------------ *)
(* HandleCrash                                                          *)
(* ------------------------------------------------------------------ *)
\* Bug variant: the loop resets the delivered signal only.
ResetTargetOnlySignum(t, i) == signum[t]

\* The signal whose disposition iteration i of the reset loop of the
\* handler running on thread t writes: *i.
ResetTarget(t, i) == SignalAt(i)

\* One iteration of: for (i = _signals_to_handle; i != endof(...); i++) signal(*i, SIG_DFL);
ResetStep(t) ==
  /\ proc = "running"
  /\ pc[t] = "Reset"
  /\ ri[t] <= Len(_signals_to_handle)
  /\ disp' = [disp EXCEPT ![ResetTarget(t, ri[t])] = ResetDisposition]
  /\ sigwrites' = [sigwrites EXCEPT ![ResetTarget(t, ri[t])].crash = @ + 1]
  /\ ri' = [ri EXCEPT ![t] = @ + 1]
  /\ pc' = [pc EXCEPT ![t] = IF ri[t] = Len(_signals_to_handle)
                               THEN "TestEmergency" ELSE "Reset"]
  /\ hist' = [hist EXCEPT ![t] = Append(@, <<"signal", ResetTarget(t, ri[t])>>)]
  /\ UNCHANGED <<installs, procVars, buildVars, signum, entries, reportVars>>

\* A step of HandleCrash that only moves on and is recorded in hist.
Goto(t, to, ev) ==
  /\ pc' = [pc EXCEPT ![t] = to]
  /\ hist' = [hist EXCEPT ![t] = Append(@, ev)]

\* Bug variant: the messages go to the standard error stream.
PrintStreamStderr == "stderr"

\* fmt::print(text) without a stream argument writes to the standard output.
PrintStream == "stdout"

\* if (_gamelog.TestEmergency())
TestEmergency(t) ==
  /\ proc = "running"
  /\ pc[t] = "TestEmergency"
  /\ Goto(t, IF emergency THEN "PrintEmergency" ELSE "TestNewGRF", <<"TestEmergency">>)
  /\ UNCHANGED <<disp, sigwrites, installs, procVars, buildVars, ri, signum, entries,
                 reportVars>>

\* Bug variant: the emergency branch lacks its abort() and falls through.
AfterPrintEmergencyFallThrough == "TestNewGRF"

\* The emergency branch ends in abort().
AfterPrintEmergency == "Abort"

\* The two fmt::print calls of the emergency branch.
PrintEmergency(t) ==
  /\ proc = "running"
  /\ pc[t] = "PrintEmergency"
  /\ Goto(t, AfterPrintEmergency, <<"print", PrintStream, "emergency savegame">>)
  /\ UNCHANGED <<disp, sigwrites, installs, procVars, buildVars, ri, signum, entries,
                 reportVars>>

\* if (SaveloadCrashWithMissingNewGRFs())
TestNewGRF(t) ==
  /\ proc = "running"
  /\ pc[t] = "TestNewGRF"
  /\ Goto(t, IF missingGRF THEN "PrintNewGRF" ELSE "Construct", <<"SaveloadCrashWithMissingNewGRFs">>)
  /\ UNCHANGED <<disp, sigwrites, installs, procVars, buildVars, ri, signum, entries,
                 reportVars>>

\* Bug variant: the missing-NewGRF branch lacks its abort() and falls through.
AfterPrintNewGRFFallThrough == "Construct"

\* The missing-NewGRF branch ends in abort().
AfterPrintNewGRF == "Abort"

\* The three fmt::print calls of the missing-NewGRF branch.
PrintNewGRF(t) ==
  /\ proc = "running"
  /\ pc[t] = "PrintNewGRF"
  /\ Goto(t, AfterPrintNewGRF, <<"print", PrintStream, "missing NewGRFs">>)
  /\ UNCHANGED <<disp, sigwrites, installs, procVars, buildVars, ri, signum, entries,
                 reportVars>>

\* Bug variant: the constructor leaves the member signum unset.
CrashLogUnixNoSignum(sig) == [signum |-> "none", crashdump_filename |-> ""]

\* CrashLogUnix(int signum) : signum(signum)
CrashLogUnix(sig) == [signum |-> sig, crashdump_filename |-> ""]

\* CrashLogUnix log(signum);
Construct(t) ==
  /\ proc = "running"
  /\ pc[t] = "Construct"
  /\ log' = [log EXCEPT ![t] = CrashLogUnix(signum[t])]
  /\ Goto(t, "MakeCrashLog", <<"CrashLogUnix", signum[t]>>)
  /\ UNCHANGED <<disp, sigwrites, installs, procVars, buildVars, ri, signum, entries,
                 buf, files, dret>>

(* ------------------------------------------------------------------ *)
(* CrashLogUnix: the report sections (pure functions of their inputs)   *)
(* ------------------------------------------------------------------ *)
\* What uname(&name) can answer: rc < 0 with errno set, or rc = 0 and the names.
UnameResults ==
  { [rc |-> 0, errno |-> "0", sysname |-> "Linux", release |-> "6.1",
     version |-> "#1 SMP", machine |-> "x86_64"],
    [rc |-> -1, errno |-> "EFAULT", sysname |-> "?", release |-> "?",
     version |-> "?", machine |-> "?"] }

strerror(e) == IF e = "EFAULT" THEN "Bad address" ELSE "Success"

strsignal(s) ==
  CASE s = "SIGSEGV" -> "Segmentation fault"
    [] s = "SIGABRT" -> "Aborted"
    [] s = "SIGFPE"  -> "Floating point exception"
    [] s = "SIGBUS"  -> "Bus error"
    [] s = "SIGILL"  -> "Illegal instruction"
    [] OTHER         -> "Unknown signal"

\* if (uname(&name) < 0)
UnameFailed(u) == u.rc < 0

\* CrashLogUnix::LogOSVersion: the lines appended for uname result u.
LogOSVersion(u) ==
  IF UnameFailed(u)
  THEN << <<"Could not get OS version: ", strerror(u.errno)>> >>
  ELSE << <<"Operating system:">>,
          <<" Name:     ", u.sysname>>,
          <<" Release:  ", u.release>>,
          <<" Version:  ", u.version>>,
          <<" Machine:  ", u.machine>> >>

\* CrashLogUnix::LogError: the lines appended for this->signum and message.
LogError(sig, message) ==
  << <<"Crash reason:">>,
     <<" Signal:  ", strsignal(sig), " (", sig, ")">>,
     <<" Message: ", message>>,
     <<"">> >>

\* Bug variant: backtrace ignores the size of the array it fills.
backtraceUnbounded(d, size) == d

\* int trace_size = backtrace(trace, lengthof(trace)) on a call stack of depth d.
backtrace(d, size) == Min(d, size)

\* The null pointer, as a symbol array.
NULL == [null |-> TRUE, str |-> <<>>]
SymbolOutcomes == {"resolved", "raw", "null"}

\* char **messages = backtrace_symbols(trace, trace_size): one string per
\* frame (the symbol when it resolves, else the raw address), or NULL when
\* the array cannot be allocated.
backtrace_symbols(n, outcome) ==
  IF outcome = "null" THEN NULL
  ELSE [null |-> FALSE,
        str |-> [i \in 1..n |-> IF outcome = "resolved" THEN <<"symbol", i - 1>>
                                                        ELSE <<"address", i - 1>>]]

\* {:02}: decimal, zero padded to width 2.
Fmt02(i) == IF i < 10 THEN <<0, i>> ELSE <<i \div 10, i % 10>>

\* fmt::format_to(output_iterator, " [{:02}] {}\n", i, messages[i])
FrameLine(i, m) == <<" [", Fmt02(i), "] ", m>>

\* Bug variant: the capture branch is compiled in whatever the platform.
StackCaptureAlways(hasGlibc) == TRUE

\* The #if defined(__GLIBC__) choice of LogStacktrace.
StackCapture(hasGlibc) == hasGlibc

\* CrashLogUnix::LogStacktrace: the lines appended when trace_size frames
\* were captured and messages is an array of trace_size strings.
LogStacktrace(hasGlibc, trace_size, messages) ==
  << <<"Stacktrace:">> >>
  \o (IF StackCapture(hasGlibc)
      THEN [k \in 1..trace_size |-> FrameLine(k - 1, messages.str[k])]
      ELSE << <<" Not supported.">> >>)
  \o << <<"">> >>

\* What reading messages[i] yields when messages is NULL and the read does
\* not trap: arbitrary bytes.
Garbage(n) == [null |-> FALSE, str |-> [i \in 1..n |-> <<"garbage">>]]

(* ------------------------------------------------------------------ *)
(* CrashLog::MakeCrashLog as run by HandleCrash: log.MakeCrashLog()     *)
(* ------------------------------------------------------------------ *)
handlerFrame == <<disp, sigwrites, installs, procVars, buildVars, ri, signum, entries>>

\* Entry of MakeCrashLog: the report buffer starts empty.
MakeCrashLog(t) ==
  /\ proc = "running"
  /\ pc[t] = "MakeCrashLog"
  /\ buf' = [buf EXCEPT ![t] = <<>>]
  /\ Goto(t, "LogOSVersion", <<"MakeCrashLog">>)
  /\ UNCHANGED <<handlerFrame, log, files, dret>>

\* A variant whose writes land in front of the text already in the buffer.
format_toFront(out, lines) == lines \o out

\* fmt::format_to(output_iterator, ...): output_iterator is a
\* std::back_insert_iterator, so every write is a push_back on the buffer.
format_to(out, lines) == out \o lines

\* Section 1: this->LogOSVersion(output_iterator)
CallLogOSVersion(t) ==
  /\ proc = "running"
  /\ pc[t] = "LogOSVersion"
  /\ \E u \in UnameResults :
       /\ buf' = [buf EXCEPT ![t] = format_to(@, LogOSVersion(u))]
       /\ Goto(t, "LogError", <<"LogOSVersion", u.rc>>)
  /\ UNCHANGED <<handlerFrame, log, files, dret>>

\* Section 2: this->LogError(output_iterator, message)
CallLogError(t) ==
  /\ proc = "running"
  /\ pc[t] = "LogError"
  /\ \E m \in Messages :
       buf' = [buf EXCEPT ![t] = format_to(@, LogError(log[t].signum, m))]
  /\ Goto(t, "LogStacktrace", <<"LogError">>)
  /\ UNCHANGED <<handlerFrame, log, files, dret>>

\* Section 3: this->LogStacktrace(output_iterator).  With messages == NULL
\* and trace_size > 0 the loop reads messages[0] through a null pointer:
\* the read traps (SIGSEGV) or yields arbitrary bytes.
CallLogStacktrace(t) ==
  /\ proc = "running"
  /\ pc[t] = "LogStacktrace"
  /\ \E d \in Depths, o \in SymbolOutcomes :
       LET trace_size == IF StackCapture(glibc) THEN backtrace(d, TraceLen) ELSE 0
           messages == backtrace_symbols(trace_size, o)
       IN  IF StackCapture(glibc) /\ messages = NULL /\ trace_size > 0
           THEN \/ Raise(t, "SIGSEGV", "fault")
                \/ /\ buf' = [buf EXCEPT ![t] =
                                format_to(@, LogStacktrace(glibc, trace_size, Garbage(trace_size)))]
                   /\ Goto(t, "LogState", <<"LogStacktrace", "garbage", d>>)
                   /\ UNCHANGED <<handlerFrame, log, files, dret>>
           ELSE /\ buf' = [buf EXCEPT ![t] =
                             format_to(@, LogStacktrace(glibc, trace_size, messages))]
                /\ Goto(t, "LogState", <<"LogStacktrace", "done", d>>)
                /\ UNCHANGED <<handlerFrame, log, files, dret>>

\* Section 4: the state-log sections supplied by the collaborators.
CallLogState(t) ==
  /\ proc = "running"
  /\ pc[t] = "LogState"
  /\ buf' = [buf EXCEPT ![t] = @ \o << <<"State log:">> >>]
  /\ Goto(t, "WriteCrashLog", <<"LogState">>)
  /\ UNCHANGED <<handlerFrame, log, files, dret>>

\* The buffer is written to the diagnostic artifact path.
WriteCrashLog(t) ==
  /\ proc = "running"
  /\ pc[t] = "WriteCrashLog"
  /\ files' = [files EXCEPT ![t] = @ \cup {"crash.log"}]
  /\ Goto(t, "WriteCrashDump", <<"WriteCrashLog">>)
  /\ UNCHANGED <<handlerFrame, log, buf, dret>>

(* ------------------------------------------------------------------ *)
(* CrashLogUnix::WriteCrashDump and MinidumpCallback                    *)
(* ------------------------------------------------------------------ *)
\* The status of a platform without dump facility.
Unsupported == 0

\* return WriteMinidump(...) ? 1 : -1;
WriteCrashDump(succeeded) == IF succeeded THEN 1 ELSE -1

\* MinidumpCallback: crashdump_filename = CreateFileName(".dmp"), the
\* artifact is renamed to it (the result of std::rename is not looked at).
MinidumpCallback(t, renamed) ==
  /\ log' = [log EXCEPT ![t].crashdump_filename = "crash.dmp"]
  /\ files' = [files EXCEPT ![t] =
                 @ \cup {IF renamed THEN "crash.dmp" ELSE "minidump.tmp"}]

\* Bug variant: the call of the cleanup hook is missing.
AfterMakeCrashLogNoCleanup(ret) == "Abort"

\* Bug variant: a failed MakeCrashLog makes the handler abort at once.
AfterMakeCrashLogChecked(ret) == IF ret THEN "Cleanup" ELSE "Abort"

\* HandleCrash does not look at what MakeCrashLog returned.
AfterMakeCrashLog(ret) == "Cleanup"

\* int dret = this->WriteCrashDump(), the last step of MakeCrashLog.
CallWriteCrashDump(t) ==
  /\ proc = "running"
  /\ pc[t] = "WriteCrashDump"
  /\ IF breakpad
     THEN \E succeeded \in BOOLEAN, renamed \in BOOLEAN :
            /\ MinidumpCallback(t, renamed)
            /\ dret' = [dret EXCEPT ![t] = <<WriteCrashDump(succeeded)>>]
            /\ Goto(t, AfterMakeCrashLog(WriteCrashDump(succeeded) >= 0),
                    <<"WriteCrashDump", WriteCrashDump(succeeded)>>)
     ELSE /\ dret' = [dret EXCEPT ![t] = <<Unsupported>>]
          /\ Goto(t, AfterMakeCrashLog(TRUE), <<"WriteCrashDump", Unsupported>>)
          /\ UNCHANGED <<log, files>>
  /\ UNCHANGED <<handlerFrame, buf>>

(* ------------------------------------------------------------------ *)
(* The end of HandleCrash                                               *)
(* ------------------------------------------------------------------ *)
\* CrashLog::AfterCrashLogCleanup();
AfterCrashLogCleanup(t) ==
  /\ proc = "running"
  /\ pc[t] = "Cleanup"
  /\ Goto(t, "Abort", <<"AfterCrashLogCleanup">>)
  /\ UNCHANGED <<handlerFrame, reportVars>>

\* abort(): raises SIGABRT on the calling thread.
Abort(t) ==
  /\ proc = "running"
  /\ pc[t] = "Abort"
  /\ Raise(t, "SIGABRT", "abort")

\* A second fatal signal raised by the code HandleCrash runs after its reset loop.
SecondFault(t) ==
  /\ proc = "running"
  /\ pc[t] \notin {"Armed", "Reset"}
  /\ \E s \in Handled : Raise(t, s, "fault")

HandleCrash(t) ==
  \/ ResetStep(t)
  \/ TestEmergency(t)
  \/ PrintEmergency(t)
  \/ TestNewGRF(t)
  \/ PrintNewGRF(t)
  \/ Construct(t)
  \/ MakeCrashLog(t)
  \/ CallLogOSVersion(t)
  \/ CallLogError(t)
  \/ CallLogStacktrace(t)
  \/ CallLogState(t)
  \/ WriteCrashLog(t)
  \/ CallWriteCrashDump(t)
  \/ AfterCrashLogCleanup(t)
  \/ Abort(t)

Next ==
  \/ InitialiseCrashLog
  \/ \E t \in Threads : Fault(t)
  \/ \E t \in Threads : HandleCrash(t)

\* The program by itself.
Spec == Init /\ [][Next]_vars

\* A signal handler runs on its thread until it ends the process.
LiveSpec == Spec /\ \A t \in Threads : WF_vars(HandleCrash(t))

NextFault == Next \/ \E t \in Threads : SecondFault(t)

\* The program with further faults in the code the handler runs.
FaultSpec == Init /\ [][NextFault]_vars

(* ------------------------------------------------------------------ *)
(* Reading the history of a handler                                     *)
(* ------------------------------------------------------------------ *)
\* How often thread t's handler has executed the step called name.
Count(t, name) == Cardinality({k \in 1..Len(hist[t]) : hist[t][k][1] = name})
Has(t, name) == Count(t, name) > 0
InHandler(t) == pc[t] # "Armed"
PastReset(t) == pc[t] \notin {"Armed", "Reset"}
AllDefault == \A s \in Handled : disp[s] = "SIG_DFL"

(* ------------------------------------------------------------------ *)
(* C1                                                                   *)
(* ------------------------------------------------------------------ *)
\* C1: when HandleCrash is entered for a handled signal s, every one of the
\* five handled signals (not only s) has been set to SIG_DFL before the
\* handler queries an escape condition, prints, builds a report, runs the
\* cleanup hook or calls abort(): whenever a handler is past its reset loop
\* all five dispositions are default, and every step of the handler other
\* than a reset is preceded by a reset of each of the five signals.
C1_ResetBeforeAnyWork ==
  \A t \in Threads :
    /\ PastReset(t) => AllDefault
    /\ \A k \in 1..Len(hist[t]) :
         hist[t][k][1] \notin {"HandleCrash", "signal"} =>
           \A s \in Handled : \E j \in 1..(k - 1) : hist[t][j] = <<"signal", s>>

\* A handler entered for SIGILL, the last signal of the list, has got as far
\* as the cleanup hook.
C1_Witness ==
  \E t \in Threads : pc[t] = "Cleanup" /\ signum[t] = "SIGILL"

(* ------------------------------------------------------------------ *)
(* C2 - C4                                                              *)
(* ------------------------------------------------------------------ *)
Terminated == proc = "terminated"
ByAbort == Terminated /\ termBy = [by |-> "abort", sig |-> "SIGABRT"]
\* Nothing of a report exists for thread t's crash.
NoReport(t) ==
  /\ log[t] = NoLog
  /\ ~Has(t, "CrashLogUnix")
  /\ ~Has(t, "MakeCrashLog")
  /\ buf[t] = <<>>
  /\ files[t] = {}
  /\ dret[t] = <<>>

\* C2: once HandleCrash is entered, on every path the process ends through
\* abort(): a process whose handler ran has ended by abort() whenever it has
\* ended.
C2_EveryPathEndsInAbort ==
  \A t \in Threads : (entries[t] > 0 /\ Terminated) => ByAbort

\* C3: if _gamelog.TestEmergency() is true when HandleCrash runs, no
\* CrashLogUnix object is built, MakeCrashLog is never called, no report
\* file and no dump is created, and the process ends through abort().
C3_EmergencyEscape ==
  /\ [](\A t \in Threads :
          emergency => /\ NoReport(t)
                       /\ (entries[t] > 0 /\ Terminated) => ByAbort)
  /\ \A t \in Threads : (emergency /\ entries[t] > 0) ~> ByAbort

\* The emergency message was printed and the process has ended by abort().
C3_Witness ==
  \E t \in Threads :
    emergency /\ ~missingGRF /\ Has(t, "print") /\ ByAbort /\ NoReport(t)

\* C4: if SaveloadCrashWithMissingNewGRFs() is true when HandleCrash runs,
\* MakeCrashLog is never called, no report file and no dump is created, and
\* the process ends through abort(), whatever the emergency condition is.
C4_MissingNewGRFEscape ==
  /\ [](\A t \in Threads :
          missingGRF => /\ NoReport(t)
                        /\ (entries[t] > 0 /\ Terminated) => ByAbort)
  /\ \A t \in Threads : (missingGRF /\ entries[t] > 0) ~> ByAbort

\* The missing-NewGRF branch was taken (the emergency condition being
\* false) and the process has ended by abort().
C4_Witness ==
  \E t \in Threads :
    /\ missingGRF /\ ~emergency /\ ByAbort /\ NoReport(t)
    /\ \E k \in 1..Len(hist[t]) : hist[t][k] = <<"print", "stdout", "missing NewGRFs">>

(* ------------------------------------------------------------------ *)
(* C5 - C7                                                              *)
(* ------------------------------------------------------------------ *)
\* The lines of a buffer that render a signal.
SignalLines(b) == SelectSeq(b, LAMBDA l : l[1] = " Signal:  ")
SignalLine(s) == <<" Signal:  ", strsignal(s), " (", s, ")">>

\* C5: if both escape conditions are false when HandleCrash runs for signal
\* s, the handler builds exactly one CrashLogUnix whose signum is s and calls
\* MakeCrashLog exactly once on it, and the error section of the report
\* shows s, by name and by number.
C5_ReportingPath ==
  /\ [](\A t \in Threads :
          (~emergency /\ ~missingGRF) =>
            /\ Count(t, "CrashLogUnix") <= 1
            /\ Count(t, "MakeCrashLog") <= 1
            /\ Has(t, "MakeCrashLog") =>
                 /\ Count(t, "CrashLogUnix") = 1
                 /\ signum[t] \in Handled
                 /\ log[t].signum = signum[t]
            /\ Has(t, "LogError") => SignalLines(buf[t]) = <<SignalLine(signum[t])>>)
  /\ \A t \in Threads :
       (~emergency /\ ~missingGRF /\ entries[t] > 0) ~> (Count(t, "MakeCrashLog") = 1)

\* A handler entered for SIGBUS has written the error section.
C5_Witness ==
  \E t \in Threads :
    /\ ~emergency /\ ~missingGRF /\ signum[t] = "SIGBUS"
    /\ Has(t, "LogError") /\ Count(t, "MakeCrashLog") = 1

\* C6: on the thread that received the fatal signal HandleCrash is entered
\* at most once: a second fault of a handled kind raised after the reset
\* loop, and the SIGABRT of the final abort(), end the process through the
\* default action and never enter HandleCrash again, so at most one report
\* is made and the process ends exactly once.
C6_EnteredAtMostOnce ==
  /\ [](\A t \in Threads :
          /\ entries[t] <= 1
          /\ Count(t, "MakeCrashLog") <= 1
          /\ Count(t, "WriteCrashLog") <= 1)
  /\ [][/\ proc = "running"
        /\ \A t \in Threads : InHandler(t) => entries'[t] = entries[t]
        /\ \A t \in Threads :
             (PastReset(t) /\ pc'[t] = pc[t]) =>
                /\ Terminated'
                /\ termBy'.sig \in Handled
                /\ disp[termBy'.sig] = "SIG_DFL"]_vars

\* A second fault during report generation has ended the process by the
\* default action, the handler having been entered once.
C6_Witness ==
  \E t \in Threads :
    /\ Terminated /\ termBy.by = "fault" /\ termBy.sig = "SIGFPE"
    /\ entries[t] = 1 /\ pc[t] = "WriteCrashLog"

\* C7: when the dump facility is compiled in and WriteCrashDump returns the
\* failure status -1, the cleanup hook still runs and abort() is still
\* reached.
C7_DumpFailureNotFatal ==
  \A t \in Threads :
    (breakpad /\ dret[t] = <<-1>>) ~> (Has(t, "AfterCrashLogCleanup") /\ ByAbort)

\* The dump failed, the cleanup hook ran and the process ended by abort().
C7_Witness ==
  \E t \in Threads :
    breakpad /\ dret[t] = <<-1>> /\ Has(t, "AfterCrashLogCleanup") /\ ByAbort

(* ------------------------------------------------------------------ *)
(* C8 - C10                                                             *)
(* ------------------------------------------------------------------ *)
\* uname failed in thread t's LogOSVersion.
UnameFailedIn(t) == \E k \in 1..Len(hist[t]) : hist[t][k] = <<"LogOSVersion", -1>>
OSLines(b) ==
  SelectSeq(b, LAMBDA l : l[1] \in {"Could not get OS version: ", "Operating system:",
                                    " Name:     ", " Release:  ", " Version:  ",
                                    " Machine:  "})
\* The stack-trace section of a buffer: from its header to the blank line
\* that closes it.
HeaderAt(b) == CHOOSE k \in 1..Len(b) : b[k] = <<"Stacktrace:">>
CloseAt(b) == CHOOSE k \in (HeaderAt(b) + 1)..Len(b) :
                /\ b[k] = <<"">>
                /\ \A j \in (HeaderAt(b) + 1)..(k - 1) : b[j] # <<"">>
StackSection(b) == SubSeq(b, HeaderAt(b), CloseAt(b))
FrameLines(b) == SelectSeq(b, LAMBDA l : l[1] = " [")

\* C8: if uname fails, LogOSVersion appends exactly the one line 'Could not
\* get OS version: <reason>' and none of the Name/Release/Version/Machine
\* lines, returns normally, and the error section, the stack-trace section
\* and the writing of the report file still take place: a crash whose uname
\* failed has, once the process has ended, written all three.
C8_UnameFailureDegrades ==
  \A t \in Threads :
    UnameFailedIn(t) =>
      /\ OSLines(buf[t]) = << <<"Could not get OS version: ", "Bad address">> >>
      /\ Terminated => /\ Has(t, "LogError")
                       /\ Has(t, "LogStacktrace")
                       /\ "crash.log" \in files[t]

\* C9: in a build without glibc's execinfo the stack-trace section is
\* present and holds, between its header and its closing blank line, exactly
\* the line ' Not supported.'; the report has no frame lines.
C9_NotSupportedMarker ==
  \A t \in Threads :
    (~glibc /\ Has(t, "LogStacktrace")) =>
      /\ Len(SelectSeq(buf[t], LAMBDA l : l = <<"Stacktrace:">>)) = 1
      /\ StackSection(buf[t]) = << <<"Stacktrace:">>, <<" Not supported.">>, <<"">> >>
      /\ FrameLines(buf[t]) = <<>>

\* A build without glibc has written a report with its stack-trace section.
C9_Witness ==
  \E t \in Threads : ~glibc /\ Has(t, "LogStacktrace") /\ "crash.log" \in files[t]

\* C10: LogStacktrace completes without faulting also when backtrace_symbols
\* yields no symbol array, so the later sections, the file write and abort()
\* are not prevented: the process never ends while a thread is inside
\* LogStacktrace.
C10_StacktraceCompletes ==
  \A t \in Threads : ~(Terminated /\ pc[t] = "LogStacktrace")

(* ------------------------------------------------------------------ *)
(* C11                                                                  *)
(* ------------------------------------------------------------------ *)
\* The streams thread t's handler has printed its escape message to.
PrintedTo(t) == {hist[t][k][2] : k \in {j \in 1..Len(hist[t]) : hist[t][j][1] = "print"}}
Escaping == emergency \/ missingGRF

\* C11 as stated: on an escape path the short message is written to the
\* standard error stream and to no other stream before abort().
C11_EscapeMessageOnStderr ==
  \A t \in Threads :
    (Escaping /\ pc[t] = "Abort") => PrintedTo(t) = {"stderr"}

\* C11 as amended: on an escape path the short message is written to the
\* standard output stream and to no other stream, once, before abort().
C11_EscapeMessageOnStdout ==
  \A t \in Threads :
    /\ PrintedTo(t) \subseteq {"stdout"}
    /\ Count(t, "print") <= 1
    /\ (Escaping /\ pc[t] = "Abort") => Count(t, "print") = 1
    /\ Has(t, "print") => Escaping

\* An escaping handler has printed its message and the process has ended.
C11_Witness ==
  \E t \in Threads : Escaping /\ Has(t, "print") /\ ByAbort

(* ------------------------------------------------------------------ *)
(* C12                                                                  *)
(* ------------------------------------------------------------------ *)
TheFive == {"SIGSEGV", "SIGABRT", "SIGFPE", "SIGBUS", "SIGILL"}
Installing == installs' = installs + 1

\* C12: after CrashLog::InitialiseCrashLog the disposition of exactly
\* SIGSEGV, SIGABRT, SIGFPE, SIGBUS and SIGILL is HandleCrash and that of
\* every other signal is what it was; a further call while no crash is in
\* progress leaves the table as it is.
C12_InstallExactlyFive ==
  [][Installing =>
       /\ \A s \in TheFive : disp'[s] = "HandleCrash"
       /\ \A s \in AllSignals \ TheFive : disp'[s] = disp[s] /\ disp'[s] # "HandleCrash"
       /\ installs >= 1 => disp' = disp]_vars

\* The handlers were installed twice over a table whose SIGTERM is ignored.
C12_Witness ==
  /\ installs = 2
  /\ disp["SIGTERM"] = "SIG_IGN"
  /\ \A s \in TheFive : disp[s] = "HandleCrash"

(* ------------------------------------------------------------------ *)
(* Two threads that fault concurrently                                  *)
(* ------------------------------------------------------------------ *)
\* The answers of the environment in the ordinary case: uname succeeds, no
\* message is set, the call stack is short and its symbols resolve (or the
\* read of a null symbol array traps), the dump facility succeeds and its
\* artifact is renamed.
Ordinary(t) ==
  /\ ~UnameFailedIn(t)
  /\ \A k \in 1..Len(buf[t]) :
       /\ buf[t][k][1] = " Message: " => buf[t][k][2] = ""
       /\ buf[t][k][1] = " [" => buf[t][k][4][1] = "symbol"
  /\ Len(FrameLines(buf[t])) <= MaxDepth
  /\ dret[t] # <<-1>>
  /\ "minidump.tmp" \notin files[t]

\* Game code runs on both threads.
ConcInit == Start /\ faulty = Threads

ConcNext ==
  \/ InitialiseCrashLog
  \/ \E t \in Threads : Fault(t)
  \/ \E t \in Threads : HandleCrash(t) /\ Ordinary(t)'

\* The program with two threads that may fault, each running its own
\* HandleCrash, the environment answering as in the ordinary case.
ConcSpec == ConcInit /\ [][ConcNext]_vars

(* ------------------------------------------------------------------ *)
(* C13                                                                  *)
(* ------------------------------------------------------------------ *)
\* How often thread t's handler has written the disposition of signal s.
ResetsBy(t, s) == Cardinality({k \in 1..Len(hist[t]) : hist[t][k] = <<"signal", s>>})
Entered == {t \in Threads : entries[t] > 0}

\* C13 as stated: over a process lifetime (Install called once) the entry
\* of each handled signal is written once by Install and once more at crash
\* time, for one faulting thread and for two that fault concurrently.
C13_WrittenOnceAtCrash ==
  \A s \in Handled :
    installs = 1 => /\ sigwrites[s].install = 1
                    /\ sigwrites[s].crash <= 1

\* C13 as amended: each call of Install writes the entry of each handled
\* signal once, each execution of HandleCrash writes it once more, to
\* default, in its reset loop, and no other step of the crash path writes
\* it: once at crash time for a single faulting thread, once per handler
\* entered when two threads fault concurrently.
C13_WrittenOncePerHandler ==
  /\ [](\A s \in Handled :
          /\ sigwrites[s].install = installs
          /\ \A t \in Threads :
               /\ ResetsBy(t, s) <= 1
               /\ PastReset(t) => ResetsBy(t, s) = 1
          /\ sigwrites[s].crash <= Cardinality(Entered)
          /\ (\A t \in Entered : PastReset(t)) => sigwrites[s].crash = Cardinality(Entered))
  /\ [][/\ disp' # disp => sigwrites' # sigwrites
        /\ sigwrites' # sigwrites =>
             \/ Installing
             \/ \E t \in Threads :
                  /\ pc[t] = "Reset"
                  /\ hist'[t] = Append(hist[t], <<"signal", SignalAt(ri[t])>>)
                  /\ disp' = [disp EXCEPT ![SignalAt(ri[t])] = "SIG_DFL"]]_vars

\* Two threads have faulted with different signals and both have finished
\* their reset loops: every entry was written twice at crash time.
C13_Witness ==
  /\ \A t \in Threads : PastReset(t)
  /\ signum["main"] # signum["worker"]
  /\ \A s \in Handled : sigwrites[s].crash = 2

(* ------------------------------------------------------------------ *)
(* C14                                                                  *)
(* ------------------------------------------------------------------ *)
\* The position of the first step called name in thread t's history (0: none).
FirstAt(t, name) ==
  IF Has(t, name) THEN CHOOSE k \in 1..Len(hist[t]) :
                         /\ hist[t][k][1] = name
                         /\ \A j \in 1..(k - 1) : hist[t][j][1] # name
  ELSE 0

\* The coordinator state a position of HandleCrash belongs to, as its
\* place in Armed, Triggered, Escaped|Reporting, Dumping, CleaningUp, and
\* the call of abort().
Rank(p) ==
  CASE p = "Armed" -> 0
    [] p \in {"Reset", "TestEmergency", "TestNewGRF"} -> 1
    [] p \in {"PrintEmergency", "PrintNewGRF", "Construct", "MakeCrashLog",
              "LogOSVersion", "LogError", "LogStacktrace", "LogState",
              "WriteCrashLog"} -> 2
    [] p = "WriteCrashDump" -> 3
    [] p = "Cleanup" -> 4
    [] p = "Abort" -> 5

C15_SuccessMeansDumpAtPath ==
  \A t \in Threads :
    (breakpad /\ dret[t] # <<>>) =>
      /\ dret[t] \in {<<1>>, <<-1>>}
      /\ log[t].crashdump_filename = "crash.dmp"
      /\ dret[t] = <<1>> => log[t].crashdump_filename \in files[t]

\* The depth of the call stack thread t's LogStacktrace walked.
DepthOf(t) == hist[t][FirstAt(t, "LogStacktrace")][3]
\* The number a {:02} rendering stands for.
Unfmt02(ds) == ds[1] * 10 + ds[2]

IsPrefix(a, b) == Len(a) <= Len(b) /\ SubSeq(b, 1, Len(a)) = a
\* The section a report line belongs to (0 for the blank separator lines).
SectionOf(l) ==
  IF l[1] \in {"Operating system:", " Name:     ", " Release:  ", " Version:  ",
               " Machine:  ", "Could not get OS version: "} THEN 1
  ELSE IF l[1] \in {"Crash reason:", " Signal:  ", " Message: "} THEN 2
  ELSE IF l[1] \in {"Stacktrace:", " [", " Not supported."} THEN 3
  ELSE IF l[1] = "State log:" THEN 4
  ELSE 0
SectionsIn(b) == {SectionOf(b[k]) : k \in 1..Len(b)} \ {0}

\* C17: on the Reporting path the report buffer only grows at its end (no
\* step changes or removes a line already in it), and its lines come in the
\* order OS-info block, error block with the signal's name and number,
\* stack-trace block (possibly degraded), state-log sections; once the
\* state log is written all four blocks are present.
C17_AppendOnlyInOrder ==
  /\ [](\A t \in Threads :
          LET b == buf[t]
          IN  /\ \A j, k \in 1..Len(b) :
                   (j < k /\ SectionOf(b[j]) # 0 /\ SectionOf(b[k]) # 0) =>
                     SectionOf(b[j]) <= SectionOf(b[k])
              /\ Has(t, "LogOSVersion") => 1 \in SectionsIn(b)
              /\ Has(t, "LogError") =>
                   /\ 2 \in SectionsIn(b)
                   /\ SignalLines(b) = <<SignalLine(signum[t])>>
              /\ (Has(t, "LogStacktrace") /\ pc[t] # "LogStacktrace") =>
                   3 \in SectionsIn(b)
              /\ Has(t, "LogState") => SectionsIn(b) = 1..4)
  /\ [][\A t \in Threads : IsPrefix(buf[t], buf'[t])]_vars

\* A report with a degraded OS block and a degraded stack-trace block has
\* received its state log.
C17_Witness ==
  \E t \in Threads :
    /\ Has(t, "LogState") /\ UnameFailedIn(t) /\ ~glibc
    /\ SectionsIn(buf[t]) = 1..4

(* ------------------------------------------------------------------ *)
(* C18                                                                  *)
(* ------------------------------------------------------------------ *)
\* The steps thread t's handler has taken after its reset loop.
AfterReset(t) ==
  SelectSeq(hist[t], LAMBDA e : e[1] \notin {"HandleCrash", "signal"})

\* C18: on either Escaped path AfterCrashLogCleanup is never invoked and
\* the only steps between the reset loop and abort() are the queries of the
\* escape conditions and one message output; the emergency condition is
\* queried first, the missing-NewGRF condition only after the emergency
\* condition was found false, and each condition is read at most once per
\* crash.
C18_EscapeStepsOnly ==
  \A t \in Threads :
    LET steps == AfterReset(t)
    IN  /\ Count(t, "TestEmergency") <= 1
        /\ Count(t, "SaveloadCrashWithMissingNewGRFs") <= 1
        /\ Len(steps) > 0 => steps[1] = <<"TestEmergency">>
        /\ Has(t, "SaveloadCrashWithMissingNewGRFs") =>
             ~emergency /\ steps[2] = <<"SaveloadCrashWithMissingNewGRFs">>
        /\ (emergency \/ missingGRF) =>
             /\ ~Has(t, "AfterCrashLogCleanup")
             /\ Count(t, "print") <= 1
             /\ \A k \in 1..Len(steps) :
                  steps[k][1] \in {"TestEmergency", "SaveloadCrashWithMissingNewGRFs",
                                   "print"}
             /\ (pc[t] = "Abort" \/ (ByAbort /\ entries[t] > 0)) =>
                  steps = IF emergency
                          THEN << <<"TestEmergency">>,
                                  <<"print", PrintStream, "emergency savegame">> >>
                          ELSE << <<"TestEmergency">>,
                                  <<"SaveloadCrashWithMissingNewGRFs">>,
                                  <<"print", PrintStream, "missing NewGRFs">> >>

\* A crash with missing NewGRFs and no emergency savegame has queried both
\* conditions, printed its message and ended by abort().
C18_Witness ==
  \E t \in Threads :
    /\ ~emergency /\ missingGRF /\ ByAbort
    /\ Len(AfterReset(t)) = 3
    /\ ~Has(t, "AfterCrashLogCleanup")

(* ------------------------------------------------------------------ *)
(* C19                                                                  *)
(* ------------------------------------------------------------------ *)
SomePastReset == \E t \in Threads : PastReset(t)
\* Thread u's reset loop has already written the disposition of signal s.
HasReset(u, s) == \E k \in 1..Len(hist[u]) : hist[u][k] = <<"signal", s>>

\* C19: with no InitialiseCrashLog call after a crash has started, once one
\* execution of HandleCrash is past its reset loop all five handled signals
\* have the default disposition and keep it in every later state, and no
\* thread enters HandleCrash any more; a thread enters HandleCrash while
\* another is in it only on a signal that the other thread's loop has not
\* reset yet.
C19_NoEntryAfterReset ==
  /\ [](SomePastReset => AllDefault)
  /\ [][SomePastReset =>
          /\ SomePastReset'
          /\ AllDefault'
          /\ \A t \in Threads : entries'[t] = entries[t]]_vars
  /\ [][\A t \in Threads :
          entries'[t] > entries[t] =>
            /\ disp[signum'[t]] = "HandleCrash"
            /\ \A u \in Threads \ {t} :
                 InHandler(u) => pc[u] = "Reset" /\ ~HasReset(u, signum'[t])]_vars

\* Two threads are in HandleCrash for different signals: one is past its
\* reset loop, the other entered before that loop reset its signal and is
\* still in its own loop.
C19_Witness ==
  \E t, u \in Threads :
    /\ t # u /\ PastReset(t) /\ pc[u] = "Reset"
    /\ signum[t] # signum[u] /\ entries[t] = 1 /\ entries[u] = 1
    /\ AllDefault

====
